---- MODULE Spec2Model ----
(***************************************************************************)
(* Model of the YouTube Shorts pipeline (pskmattegunta/upload_youtubeshorts)*)
(*                                                                         *)
(*   SpecVideo      VideoAgent.create_video and _create_video_fallback:    *)
(*                  the tiered encoding orchestrator.                      *)
(*   SpecPartition  the chunk partition built by                           *)
(*                  VisualAgent.generate_frames.                           *)
(*   SpecRender     VisualAgent.generate_frames / execute with the pool of *)
(*                  worker processes running generate_frame_chunk.         *)
(*   SpecAudio      AudioAgent.execute: text_to_speech builds the          *)
(*                  timeline, combine_audio reconciles the duration.       *)
(*   SpecLookup     the segment a frame's time position belongs to, in     *)
(*                  generate_frame_chunk.                                  *)
(*   SpecPipeline   CoordinatorAgent.execute over its stages, and          *)
(*   SpecEmptyInput the same next to generate_frames called on its own.    *)
(*   SpecVideoLive  SpecVideo with the orchestrator's steps taken          *)
(*                  whenever one is possible.                              *)
(*   SpecAbort      the visual or the video stage interrupted by main.     *)
(*   SpecJob        CoordinatorAgent.execute with the worker pool as its   *)
(*                  visual stage and the orchestrator as its video stage.  *)
(*   SpecManifest   the frame file names, their listing and the concat     *)
(*                  manifest.                                              *)
(*   SpecWrap       wrap_text.                                             *)
(*                                                                         *)
(* External processes (ffmpeg, ffprobe) are the environment: an invocation *)
(* may fail to launch or to parse (a Python exception), exit non-zero, or  *)
(* exit zero, and it may or may not leave an output file.  Local file      *)
(* operations of the orchestrator itself (open, listdir, shutil.copy) are  *)
(* taken to succeed.  In a render worker the background image and the font *)
(* file may each fail to load.                                             *)
(***************************************************************************)
EXTENDS Integers, Sequences, FiniteSets, TLC

VARIABLES
    \* ---- VideoAgent ----
    vpc,            \* position inside create_video / _create_video_fallback
    workspace,      \* keys present in the shared workspace dict
    audio_exists,   \* os.path.exists(audio_file)
    frame_files,    \* number of frame_*.jpg files in frames_dir
    gpu_config,     \* is_mac and config["use_gpu"]
    use_gpu,        \* local use_gpu of create_video
    attempts,       \* encoder invocations so far, in order
    output_video,   \* state of the file self.output_video
    probe,          \* outcome of _get_video_duration on the output
    video_duration, \* value returned by _get_video_duration
    warnings,       \* warning-level reports emitted by this call
    copied,         \* shutil.copy(output_video, final_video) was executed
    result,         \* return value of create_video
    encoder,        \* the encoder process the call left behind, if any
    \* ---- chunk partition ----
    ppc, p_total, p_procs, p_chunks,
    \* ---- VisualAgent.generate_frames with its worker pool ----
    rpc,            \* position of the parent inside generate_frames/execute
    total_frames,
    num_processes,
    chunks,         \* the list of (start, end) handed to the pool
    cstate,         \* per chunk: queued / running / done / failed / killed
    cnext,          \* per chunk: next frame_num of the worker's loop
    generated,      \* per chunk: the worker's generated_count
    written,        \* per frame index: the sequence of chunks that saved it
    outqueue,       \* results not yet yielded by imap_unordered, in completion order
    results,        \* the parent's results list
    frames_result,  \* return value of generate_frames
    exec_result,    \* return value of VisualAgent.execute
    timeline_len,   \* len(workspace["audio_timings"]) seen by generate_frames
    bg_readable,    \* Image.open(bg_temp_path) succeeds in a worker
    font_loadable,  \* ImageFont.truetype(font_path, 70) succeeds in a worker
    cfont,          \* per chunk: the font the worker draws with
    cause,          \* per chunk: what made the task raise, if it did
    late,           \* per chunk: frames saved after the job was aborted
    \* ---- AudioAgent ----
    apc,            \* position inside AudioAgent.execute
    narration,      \* len(workspace["narration_lines"])
    gtts_available,
    pydub_available,
    timings,        \* local timings of text_to_speech
    tts_total,      \* local total_duration of text_to_speech
    audio_timings,  \* workspace["audio_timings"]
    combined_len,    \* len(combined) in combine_audio, -1 before it exists
    speed_plan,     \* the atempo filters computed, <<>> if none
    speed_runs,     \* invocations of ffmpeg with a speed filter
    audio_mix,      \* what was exported to output_file
    music_len,      \* len(bg_music) as overlaid, -1 if nothing was mixed
    output_len,     \* length of the segment exported to output_file, or -1
    audio_result,   \* return value of AudioAgent.execute
    \* ---- the segment lookup of generate_frame_chunk ----
    lpc,
    l_timings,      \* timings
    l_fps,          \* fps
    l_frame,        \* frame_num
    l_segment,      \* index of current_segment in timings, 0 for None
    l_kind,         \* the frame drawn: with text or the bare background
    l_total,        \* total_frames computed by generate_frames
    l_progress,     \* segment_progress as <<numerator, denominator>>, or <<>>
    l_alpha,        \* alpha of the text in create_text_frame, -1 without text
    \* ---- CoordinatorAgent ----
    cpc,            \* position inside CoordinatorAgent.execute
    step,           \* 1-based index of the loop over self.pipeline_steps
    stages_run,     \* the agents whose execute was called, in order
    stage_results,  \* what each of these calls returned, in order
    pipeline_result, \* return value of CoordinatorAgent.execute
    \* ---- main ----
    aborted,        \* the job was interrupted: "no", or how the interrupt
                    \* reached the running coroutine
    \* ---- the frame listing and the concat manifest of VideoAgent ----
    mpc,
    m_dir,          \* indices of frame files present in frames_dir
    m_listing,      \* frame_files after frame_files.sort(): file names
    m_manifest,     \* the lines of frames.txt: the file name of each line
    \* ---- wrap_text ----
    wpc,
    w_words,        \* text.split(): the measured width of each word
    w_max,          \* max_width
    w_i,            \* the word the loop is at
    w_current,      \* current_line
    w_lines         \* wrapped_lines

video_vars == <<vpc, audio_exists, frame_files, gpu_config, use_gpu,
                attempts, output_video, probe, video_duration, warnings,
                copied, result, encoder>>
part_vars == <<ppc, p_total, p_procs, p_chunks>>
render_vars == <<rpc, total_frames, num_processes, chunks, cstate, cnext,
                 generated, written, outqueue, results, frames_result,
                 exec_result, timeline_len, bg_readable, font_loadable, cfont,
                 cause, late>>
audio_vars == <<apc, narration, gtts_available, pydub_available, timings,
                tts_total, audio_timings, combined_len, speed_plan, speed_runs,
                audio_mix, music_len, output_len, audio_result>>
lookup_vars == <<lpc, l_timings, l_fps, l_frame, l_segment, l_kind, l_total,
                 l_progress, l_alpha>>
pipe_vars == <<cpc, step, stages_run, stage_results, pipeline_result>>
manifest_vars == <<mpc, m_dir, m_listing, m_manifest>>
wrap_vars == <<wpc, w_words, w_max, w_i, w_current, w_lines>>
vars == <<workspace, video_vars, part_vars, render_vars, audio_vars,
          lookup_vars, pipe_vars, aborted, manifest_vars, wrap_vars>>

\* the variables a component leaves alone
outside_video == <<part_vars, render_vars, audio_vars, lookup_vars,
    pipe_vars, aborted, manifest_vars, wrap_vars>>
outside_partition == <<video_vars, render_vars, audio_vars, lookup_vars,
    pipe_vars, aborted, manifest_vars, wrap_vars>>
outside_render == <<video_vars, part_vars, audio_vars, lookup_vars,
    pipe_vars, aborted, manifest_vars, wrap_vars>>
outside_audio == <<video_vars, part_vars, render_vars, lookup_vars,
    pipe_vars, aborted, manifest_vars, wrap_vars>>
outside_lookup == <<video_vars, part_vars, render_vars, audio_vars,
    pipe_vars, aborted, manifest_vars, wrap_vars>>
outside_manifest == <<workspace, video_vars, part_vars, render_vars,
    audio_vars, lookup_vars, pipe_vars, aborted, wrap_vars>>
outside_wrap == <<workspace, video_vars, part_vars, render_vars, audio_vars,
    lookup_vars, pipe_vars, aborted, manifest_vars>>

(***************************************************************************)
(* Bounds                                                                  *)
(***************************************************************************)
MaxFrameFiles == 2
\* partition inputs: totalFrames in 1..MaxTotalFrames, workers in 1..MaxProcs
MaxTotalFrames == 14
MaxProcs == 5
\* pool runs: int(total_duration * fps) in 0..MaxTimelineFrames, pool size
\* in 1..MaxPoolSize
MaxTimelineFrames == 1
MaxPoolSize == 3
\* narration of 0..MaxLines lines
MaxLines == 3
\* timelines of 1..MaxSegments segments for the lookup
MaxSegments == 3

(***************************************************************************)
(* VideoAgent                                                              *)
(***************************************************************************)
HW_DIRECT == "HW_DIRECT"
CONCAT_DEMUXER == "CONCAT_DEMUXER"
STATIC_IMAGE == "STATIC_IMAGE"
TierOrder == <<HW_DIRECT, CONCAT_DEMUXER, STATIC_IMAGE>>

\* "if video_duration > 50"
ShortsLimit == 50

RequiredKeys == {"frames_dir", "combined_audio_file", "frame_rate"}
ResultKeys == {"output_video", "final_video", "video_duration"}

\* what an external process invocation can do
Exits == {"exception", "nonzero", "zero"}
\* what an encoder run can leave at self.output_video, given what was there
FileAfter(before) == {before, "empty", "nonempty"}
\* durations ffprobe can report for a readable file (seconds)
Durations == {30, 50, 51}

NoVideo ==
    /\ vpc = "idle" /\ audio_exists = FALSE /\ frame_files = 0
    /\ gpu_config = FALSE /\ use_gpu = FALSE /\ attempts = <<>>
    /\ output_video = "missing" /\ probe = "none" /\ video_duration = 0
    /\ warnings = {} /\ copied = FALSE /\ result = "none"
    /\ encoder = "none"

NoPartition ==
    /\ ppc = "idle" /\ p_total = 0 /\ p_procs = 0 /\ p_chunks = <<>>

NoRender ==
    /\ rpc = "idle" /\ total_frames = 0 /\ num_processes = 0 /\ chunks = <<>>
    /\ cstate = <<>> /\ cnext = <<>> /\ generated = <<>> /\ written = <<>>
    /\ outqueue = <<>> /\ results = <<>> /\ frames_result = -1
    /\ exec_result = "none"
    /\ timeline_len = 0 /\ bg_readable = TRUE /\ font_loadable = TRUE
    /\ cfont = <<>> /\ cause = <<>> /\ late = <<>>

NoAudio ==
    /\ apc = "idle" /\ narration = 0 /\ gtts_available = TRUE
    /\ pydub_available = TRUE /\ timings = <<>> /\ tts_total = 0
    /\ audio_timings = <<>> /\ combined_len = -1 /\ speed_plan = <<>>
    /\ speed_runs = 0 /\ audio_mix = "none" /\ music_len = -1
    /\ output_len = -1 /\ audio_result = "none"

NoLookup ==
    /\ lpc = "idle" /\ l_timings = <<>> /\ l_fps = 0 /\ l_frame = 0
    /\ l_segment = -1 /\ l_kind = "none" /\ l_total = 0 /\ l_progress = <<>>
    /\ l_alpha = -1

NoPipeline ==
    /\ cpc = "idle" /\ step = 0 /\ stages_run = <<>> /\ stage_results = <<>>
    /\ pipeline_result = "none"

NoAbort == aborted = "no"

NoManifest ==
    /\ mpc = "idle" /\ m_dir = {} /\ m_listing = <<>> /\ m_manifest = <<>>

NoWrap ==
    /\ wpc = "idle" /\ w_words = <<>> /\ w_max = 0 /\ w_i = 0
    /\ w_current = <<>> /\ w_lines = <<>>

\* the components that are pure functions of their arguments are not running
NoHelpers == NoManifest /\ NoWrap

VideoInit ==
    /\ vpc = "start"
    /\ workspace \in {RequiredKeys, RequiredKeys \ {"frame_rate"}}
    /\ audio_exists \in BOOLEAN
    /\ frame_files \in 0..MaxFrameFiles
    /\ gpu_config \in BOOLEAN
    /\ use_gpu = FALSE
    /\ attempts = <<>>
    /\ output_video = "missing"
    /\ probe = "none"
    /\ video_duration = 0
    /\ warnings = {}
    /\ copied = FALSE
    /\ result = "none"
    /\ encoder = "none"

\* "return False" / "return True" of create_video, and the except handler
\* of create_video, which turns every exception into "return False"
Return(r) == /\ vpc' = "done" /\ result' = r

Attempt(tier, exit, out) == [tier |-> tier, exit |-> exit, output |-> out]

\* create_video, input checks
CheckInputs ==
    /\ vpc = "start"
    /\ IF \/ ~(RequiredKeys \subseteq workspace)
          \/ ~audio_exists
          \/ frame_files = 0
       THEN Return(FALSE)
       ELSE vpc' = "audio_probe" /\ UNCHANGED result
    /\ UNCHANGED <<workspace, audio_exists, encoder, frame_files, gpu_config,
                   use_gpu, attempts, output_video, probe, video_duration,
                   warnings, copied>>
    /\ UNCHANGED outside_video

\* create_video, ffprobe on the audio file
ProbeAudio ==
    /\ vpc = "audio_probe"
    /\ \E exit \in Exits :
         IF exit = "exception"
         THEN Return(FALSE) /\ UNCHANGED use_gpu
         ELSE /\ use_gpu' = gpu_config
              /\ vpc' = IF gpu_config THEN "hwaccel_test" ELSE "hw_direct"
              /\ UNCHANGED result
    /\ UNCHANGED <<workspace, audio_exists, encoder, frame_files, gpu_config,
                   attempts, output_video, probe, video_duration, warnings,
                   copied>>
    /\ UNCHANGED outside_video

\* create_video, "ffmpeg -hwaccel help"
TestVideoToolbox ==
    /\ vpc = "hwaccel_test"
    /\ \E out \in {"exception", "videotoolbox", "other"} :
         CASE out = "exception" ->
                Return(FALSE) /\ UNCHANGED <<use_gpu, warnings>>
           [] out = "videotoolbox" ->
                /\ use_gpu' = TRUE
                /\ vpc' = "hw_direct"
                /\ UNCHANGED <<result, warnings>>
           [] out = "other" ->
                /\ use_gpu' = FALSE
                /\ warnings' = warnings \cup {"videotoolbox_not_found"}
                /\ vpc' = "hw_direct"
                /\ UNCHANGED result
    /\ UNCHANGED <<workspace, audio_exists, encoder, frame_files, gpu_config,
                   attempts, output_video, probe, video_duration, copied>>
    /\ UNCHANGED outside_video

\* create_video: the direct-pattern tier failed, go to _create_video_fallback
HwFallsBack(exit, out) == exit = "nonzero" \/ (exit = "zero" /\ out = "missing")

\* create_video, the direct frame-pattern encoder run and its checks
RunHwDirect ==
    /\ vpc = "hw_direct"
    /\ \E exit \in Exits :
       \E out \in (IF exit = "exception" THEN {output_video}
                   ELSE FileAfter(output_video)) :
         /\ attempts' = Append(attempts, Attempt(HW_DIRECT, exit, out))
         /\ output_video' = out
         /\ CASE exit = "exception" ->
                   Return(FALSE) /\ UNCHANGED warnings
              [] HwFallsBack(exit, out) ->
                   /\ vpc' = "concat"
                   /\ warnings' = warnings \cup
                        (IF exit = "nonzero" /\ use_gpu THEN {"gpu_failed"} ELSE {})
                   /\ UNCHANGED result
              [] OTHER ->
                   /\ vpc' = "probe_video"
                   /\ UNCHANGED <<result, warnings>>
    /\ UNCHANGED <<workspace, audio_exists, encoder, frame_files, gpu_config,
                   use_gpu, probe, video_duration, copied>>
    /\ UNCHANGED outside_video

\* _get_video_duration: 0 on a non-zero exit or an exception
ProbeOutcomes(file) ==
    IF file = "nonempty"
    THEN {[probe |-> "ok", duration |-> d] : d \in Durations}
           \cup {[probe |-> "failed", duration |-> 0]}
    ELSE {[probe |-> "failed", duration |-> 0]}

\* the duration warning of create_video
DurationWarning(d) == IF d > ShortsLimit THEN {"duration"} ELSE {}

\* copy to final_video, workspace update, "return True"
Publish(d) ==
    /\ copied' = TRUE
    /\ video_duration' = d
    /\ workspace' = workspace \cup ResultKeys
    /\ Return(TRUE)

\* create_video after a direct-pattern run that passed the checks
FinishDirect ==
    /\ vpc = "probe_video"
    /\ \E p \in ProbeOutcomes(output_video) :
         /\ probe' = p.probe
         /\ warnings' = warnings \cup DurationWarning(p.duration)
         /\ Publish(p.duration)
    /\ UNCHANGED <<audio_exists, encoder, frame_files, gpu_config, use_gpu,
                   attempts, output_video>>
    /\ UNCHANGED outside_video

\* faulty variant: the test of the concat run's return code inverted
AfterConcatInverted(exit, out) ==
    CASE exit = "exception" -> "return_false"
      [] exit = "zero" -> "audio_duration"
      [] OTHER -> "fallback_probe"

\* where _create_video_fallback goes after the concat run
AfterConcat(exit, out) ==
    CASE exit = "exception" -> "return_false"
      [] exit = "nonzero" -> "audio_duration"
      [] exit = "zero" /\ out = "missing" -> "return_false"
      [] OTHER -> "fallback_probe"

\* _create_video_fallback: manifest, concat-demuxer encoder run
RunConcat ==
    /\ vpc = "concat"
    /\ \E exit \in Exits :
       \E out \in (IF exit = "exception" THEN {output_video}
                   ELSE FileAfter(output_video)) :
         /\ attempts' = Append(attempts, Attempt(CONCAT_DEMUXER, exit, out))
         /\ output_video' = out
         /\ warnings' = warnings \cup {"file_list"}
               \cup (IF exit = "nonzero" THEN {"one_more_fallback"} ELSE {})
         /\ IF AfterConcat(exit, out) = "return_false"
            THEN Return(FALSE)
            ELSE vpc' = AfterConcat(exit, out) /\ UNCHANGED result
    /\ UNCHANGED <<workspace, audio_exists, encoder, frame_files, gpu_config,
                   use_gpu, probe, video_duration, copied>>
    /\ UNCHANGED outside_video

\* _get_audio_duration, called to build the static-image command: it has no
\* exception handler; a non-zero exit gives the default 30.0
GetAudioDuration ==
    /\ vpc = "audio_duration"
    /\ \E exit \in Exits :
         IF exit = "exception"
         THEN Return(FALSE)
         ELSE vpc' = "static" /\ UNCHANGED result
    /\ UNCHANGED <<workspace, audio_exists, encoder, frame_files, gpu_config,
                   use_gpu, attempts, output_video, probe, video_duration,
                   warnings, copied>>
    /\ UNCHANGED outside_video

\* faulty variant: the "return False" after the failed static-image run left out
AfterStaticNoReturn(exit, out) ==
    IF exit = "exception" THEN "return_false" ELSE "fallback_probe"

\* where _create_video_fallback goes after the static-image run
AfterStatic(exit, out) ==
    IF exit = "zero" /\ out # "missing" THEN "fallback_probe" ELSE "return_false"

\* _create_video_fallback: single looped still frame
RunStatic ==
    /\ vpc = "static"
    /\ \E exit \in Exits :
       \E out \in (IF exit = "exception" THEN {output_video}
                   ELSE FileAfter(output_video)) :
         /\ attempts' = Append(attempts, Attempt(STATIC_IMAGE, exit, out))
         /\ output_video' = out
         /\ IF AfterStatic(exit, out) = "return_false"
            THEN Return(FALSE)
            ELSE vpc' = AfterStatic(exit, out) /\ UNCHANGED result
    /\ UNCHANGED <<workspace, audio_exists, encoder, frame_files, gpu_config,
                   use_gpu, probe, video_duration, warnings, copied>>
    /\ UNCHANGED outside_video

\* the duration warning of _create_video_fallback: there is none
FallbackDurationWarning(d) == {}

\* _create_video_fallback after a run that passed the checks
FinishFallback ==
    /\ vpc = "fallback_probe"
    /\ \E p \in ProbeOutcomes(output_video) :
         /\ probe' = p.probe
         /\ warnings' = warnings \cup FallbackDurationWarning(p.duration)
         /\ Publish(p.duration)
    /\ UNCHANGED <<audio_exists, encoder, frame_files, gpu_config, use_gpu,
                   attempts, output_video>>
    /\ UNCHANGED outside_video

\* the tier whose encoder is invoked at a position of the call
TierAt(pc) ==
    CASE pc = "hw_direct" -> HW_DIRECT
      [] pc = "concat" -> CONCAT_DEMUXER
      [] pc = "static" -> STATIC_IMAGE

EncoderPositions == {"hw_direct", "concat", "static"}

\* an encoder is started and never exits: "await process.communicate()" has
\* no timeout, so the call stays at that await
EncoderHangs ==
    /\ vpc \in EncoderPositions
    /\ attempts' = Append(attempts, Attempt(TierAt(vpc), "never", output_video))
    /\ encoder' = "running"
    /\ vpc' = "blocked"
    /\ UNCHANGED <<workspace, audio_exists, frame_files, gpu_config, use_gpu,
                   output_video, probe, video_duration, warnings, copied,
                   result>>
    /\ UNCHANGED outside_video

VideoNext ==
    \/ CheckInputs
    \/ ProbeAudio
    \/ TestVideoToolbox
    \/ RunHwDirect
    \/ FinishDirect
    \/ RunConcat
    \/ GetAudioDuration
    \/ RunStatic
    \/ FinishFallback
    \/ EncoderHangs

VideoOnlyInit ==
    /\ VideoInit /\ NoPartition /\ NoRender /\ NoAudio /\ NoLookup
    /\ NoPipeline /\ NoAbort /\ NoHelpers

SpecVideo == VideoOnlyInit /\ [][VideoNext]_vars

\* the coroutine takes its next step whenever one is possible
SpecVideoLive == SpecVideo /\ WF_vars(VideoNext)

(***************************************************************************)
(* VisualAgent.generate_frames: the chunk partition                        *)
(***************************************************************************)
Max(a, b) == IF a >= b THEN a ELSE b
Min(a, b) == IF a <= b THEN a ELSE b

\* faulty variant: the chunk size rounded up instead of down
ChunkSizeCeil(total, procs) == (total + procs - 1) \div procs

\* chunk_size = max(1, total_frames // num_processes)
ChunkSize(total, procs) == Max(1, total \div procs)

RECURSIVE ChunksFrom(_, _, _)
\* for i in range(i, total_frames, chunk_size): (i, min(i + chunk_size, total_frames))
ChunksFrom(i, size, total) ==
    IF i >= total THEN <<>>
    ELSE <<[start |-> i, end |-> Min(i + size, total)]>>
           \o ChunksFrom(i + size, size, total)

RECURSIVE ChunksFromGap(_, _, _)
ChunksFromGap(i, size, total) ==
    IF i >= total THEN <<>>
    ELSE <<[start |-> i, end |-> Min(i + size, total)]>>
           \o ChunksFromGap(i + size + 1, size, total)

RECURSIVE ChunksFromOverlap(_, _, _)
ChunksFromOverlap(i, size, total) ==
    IF i >= total THEN <<>>
    ELSE <<[start |-> i, end |-> Min(i + size + 1, total)]>>
           \o ChunksFromOverlap(i + size, size, total)

\* faulty variant: the loop steps one past the chunk size
MakeChunksGap(total, procs) == ChunksFromGap(0, ChunkSize(total, procs), total)
\* faulty variant: the end of a chunk is one past the next chunk's start
MakeChunksOverlap(total, procs) ==
    ChunksFromOverlap(0, ChunkSize(total, procs), total)

\* the chunks list of generate_frames
MakeChunks(total, procs) == ChunksFrom(0, ChunkSize(total, procs), total)

PartitionInit ==
    /\ ppc = "start"
    /\ p_total \in 1..MaxTotalFrames
    /\ p_procs \in 1..MaxProcs
    /\ p_chunks = <<>>

\* generate_frames, "Split frames into chunks for parallel processing"
SplitFrames ==
    /\ ppc = "start"
    /\ p_chunks' = MakeChunks(p_total, p_procs)
    /\ ppc' = "done"
    /\ UNCHANGED <<p_total, p_procs>>
    /\ UNCHANGED <<workspace, outside_partition>>

PartitionNext == SplitFrames

PartitionOnlyInit ==
    /\ PartitionInit /\ workspace = {}
    /\ NoVideo /\ NoRender /\ NoAudio /\ NoLookup /\ NoPipeline /\ NoAbort
    /\ NoHelpers

SpecPartition == PartitionOnlyInit /\ [][PartitionNext]_vars

(***************************************************************************)
(* VisualAgent.generate_frames / execute and the worker pool               *)
(***************************************************************************)
\* "+ 10  # Add 10 frames buffer"
FrameBuffer == 10

\* total_frames = int(total_duration * self.fps) + 10, given int(...)
TotalFrames(timeline_frames) == timeline_frames + FrameBuffer

ChunkIds == 1..Len(chunks)
FrameIds == 0..(total_frames - 1)

VisualKeys == {"num_frames", "frames_dir", "frame_rate"}

RenderInit ==
    /\ rpc = "start"
    /\ workspace = {"run_dir", "audio_timings"}
    /\ timeline_len \in {0, 1}
    /\ total_frames \in IF timeline_len = 0 THEN {0}
                       ELSE {TotalFrames(n) : n \in 0..MaxTimelineFrames}
    /\ num_processes \in 1..MaxPoolSize
    /\ chunks = <<>>
    /\ cstate = <<>>
    /\ cnext = <<>>
    /\ generated = <<>>
    /\ written = [f \in FrameIds |-> <<>>]
    /\ outqueue = <<>>
    /\ results = <<>>
    /\ frames_result = -1
    /\ exec_result = "none"
    /\ bg_readable \in BOOLEAN
    /\ font_loadable \in BOOLEAN
    /\ cfont = <<>>
    /\ cause = <<>>
    /\ late = <<>>

\* generate_frames up to the creation of the pool: "if not timings: return 0"
\* comes before anything is created; an exception while the background is
\* prepared or saved goes to the except handler: return 0
StartGenerate ==
    /\ rpc = "start"
    /\ \E background_ok \in BOOLEAN :
         IF timeline_len # 0 /\ background_ok
         THEN /\ chunks' = MakeChunks(total_frames, num_processes)
              /\ cstate' = [c \in 1..Len(chunks') |-> "queued"]
              /\ cnext' = [c \in 1..Len(chunks') |-> chunks'[c].start]
              /\ generated' = [c \in 1..Len(chunks') |-> 0]
              /\ cfont' = [c \in 1..Len(chunks') |-> "none"]
              /\ cause' = [c \in 1..Len(chunks') |-> "none"]
              /\ late' = [c \in 1..Len(chunks') |-> 0]
              /\ rpc' = "pool"
              /\ UNCHANGED frames_result
         ELSE /\ frames_result' = 0
              /\ rpc' = "returned"
              /\ UNCHANGED <<chunks, cstate, cnext, generated, cfont, cause,
                             late>>
    /\ UNCHANGED <<workspace, total_frames, num_processes, written, outqueue,
                   results, exec_result, timeline_len, bg_readable,
                   font_loadable>>
    /\ UNCHANGED outside_render

Busy == {c \in ChunkIds : cstate[c] = "running"}

\* try: font = ImageFont.truetype(font_path, 70)
\* except Exception: font = ImageFont.load_default()
LoadFont == IF font_loadable THEN "truetype" ELSE "default"

\* a free pool process takes the next task of imap_unordered and starts
\* generate_frame_chunk on it: "bg = Image.open(bg_temp_path)" stands outside
\* any try, so a failure to open the background leaves the function as the
\* task's exception; the font is loaded with a fallback
WorkerStart(c) ==
    /\ rpc = "pool"
    /\ cstate[c] = "queued"
    /\ \A b \in ChunkIds : b < c => cstate[b] # "queued"
    /\ Cardinality(Busy) < num_processes
    /\ IF bg_readable
       THEN /\ cstate' = [cstate EXCEPT ![c] = "running"]
            /\ cfont' = [cfont EXCEPT ![c] = LoadFont]
            /\ UNCHANGED <<cause, outqueue>>
       ELSE /\ cstate' = [cstate EXCEPT ![c] = "failed"]
            /\ cause' = [cause EXCEPT ![c] = "background"]
            /\ outqueue' = Append(outqueue,
                                  [chunk |-> c, ok |-> FALSE, count |-> 0])
            /\ UNCHANGED cfont
    /\ UNCHANGED <<workspace, rpc, total_frames, num_processes, chunks, cnext,
                   generated, written, results, frames_result,
                   exec_result, timeline_len, late, bg_readable, font_loadable>>
    /\ UNCHANGED outside_render

\* one iteration of "for frame_num in range(start_frame, end_frame)":
\* the frame is composed and saved
RenderFrame(c) ==
    /\ rpc = "pool"
    /\ cstate[c] = "running"
    /\ cnext[c] < chunks[c].end
    /\ written' = [written EXCEPT ![cnext[c]] = Append(@, c)]
    /\ generated' = [generated EXCEPT ![c] = @ + 1]
    /\ cnext' = [cnext EXCEPT ![c] = @ + 1]
    /\ late' = [late EXCEPT ![c] = IF aborted = "no" THEN @ ELSE @ + 1]
    /\ UNCHANGED <<workspace, rpc, total_frames, num_processes, chunks, cstate,
                   outqueue, results, frames_result, exec_result,
                   timeline_len, bg_readable, font_loadable, cfont, cause>>
    /\ UNCHANGED outside_render

\* an iteration raises (compositing or frame.save fails): the exception
\* leaves generate_frame_chunk and becomes the task's result
RenderFail(c) ==
    /\ rpc = "pool"
    /\ cstate[c] = "running"
    /\ cnext[c] < chunks[c].end
    /\ cstate' = [cstate EXCEPT ![c] = "failed"]
    /\ cause' = [cause EXCEPT ![c] = "frame"]
    /\ outqueue' = Append(outqueue, [chunk |-> c, ok |-> FALSE, count |-> 0])
    /\ UNCHANGED <<workspace, rpc, total_frames, num_processes, chunks, cnext,
                   generated, written, results, frames_result, exec_result,
                   timeline_len, late, bg_readable, font_loadable, cfont>>
    /\ UNCHANGED outside_render

\* "return generated_count"
WorkerReturn(c) ==
    /\ rpc = "pool"
    /\ cstate[c] = "running"
    /\ cnext[c] >= chunks[c].end
    /\ cstate' = [cstate EXCEPT ![c] = "done"]
    /\ outqueue' = Append(outqueue,
                          [chunk |-> c, ok |-> TRUE, count |-> generated[c]])
    /\ UNCHANGED <<workspace, rpc, total_frames, num_processes, chunks, cnext,
                   generated, written, results, frames_result, exec_result,
                   timeline_len, late, bg_readable, font_loadable, cfont,
                   cause>>
    /\ UNCHANGED outside_render

\* the parent's loop over pool.imap_unordered: the next completed task is
\* yielded; a task that raised re-raises in the parent, which leaves the
\* "with" block (the pool is terminated) for the except handler: return 0
Collect ==
    /\ rpc = "pool"
    /\ outqueue # <<>>
    /\ LET r == Head(outqueue) IN
         IF r.ok
         THEN /\ results' = Append(results, r.count)
              /\ outqueue' = Tail(outqueue)
              /\ UNCHANGED <<rpc, cstate, frames_result>>
         ELSE /\ cstate' = [c \in ChunkIds |->
                              IF cstate[c] \in {"queued", "running"}
                              THEN "killed" ELSE cstate[c]]
              /\ outqueue' = <<>>
              /\ frames_result' = 0
              /\ rpc' = "returned"
              /\ UNCHANGED results
    /\ UNCHANGED <<workspace, total_frames, num_processes, chunks, cnext,
                   generated, written, exec_result, timeline_len, late,
                   bg_readable, font_loadable, cfont, cause>>
    /\ UNCHANGED outside_render

\* faulty variant: the loop over the pool's results ends at the first one
PoolExhaustedEarly == results # <<>>

\* imap_unordered has yielded the result of every task
PoolExhausted == Len(results) = Len(chunks)

\* "return total_frames"
ReturnedFrames == total_frames

\* every task was yielded: the pool is closed, "return total_frames"
FinishGenerate ==
    /\ rpc = "pool"
    /\ PoolExhausted
    /\ frames_result' = ReturnedFrames
    /\ rpc' = "returned"
    /\ UNCHANGED <<workspace, total_frames, num_processes, chunks, cstate,
                   cnext, generated, written, outqueue, results, exec_result,
                   timeline_len, late, bg_readable, font_loadable, cfont,
                   cause>>
    /\ UNCHANGED outside_render

\* VisualAgent.execute after generate_frames returned
Execute ==
    /\ rpc = "returned"
    /\ IF frames_result = 0
       THEN exec_result' = FALSE /\ UNCHANGED workspace
       ELSE exec_result' = TRUE /\ workspace' = workspace \cup VisualKeys
    /\ rpc' = "done"
    /\ UNCHANGED <<total_frames, num_processes, chunks, cstate, cnext,
                   generated, written, outqueue, results, frames_result,
                   timeline_len, late, bg_readable, font_loadable, cfont,
                   cause>>
    /\ UNCHANGED outside_render

RenderNext ==
    \/ StartGenerate
    \/ \E c \in ChunkIds : WorkerStart(c)
    \/ \E c \in ChunkIds : RenderFrame(c)
    \/ \E c \in ChunkIds : RenderFail(c)
    \/ \E c \in ChunkIds : WorkerReturn(c)
    \/ Collect
    \/ FinishGenerate
    \/ Execute

RenderOnlyInit ==
    /\ RenderInit /\ NoVideo /\ NoPartition /\ NoAudio /\ NoLookup
    /\ NoPipeline /\ NoAbort /\ NoHelpers

SpecRender == RenderOnlyInit /\ [][RenderNext]_vars

(***************************************************************************)
(* AudioAgent: text_to_speech, combine_audio, execute                      *)
(* Times are in tenths of a second; a segment file is taken to be as long  *)
(* as ffprobe reported it.                                                 *)
(***************************************************************************)
\* DEFAULT_CONFIG["max_duration"], in seconds
MAX_DURATION == 45
\* the model's time unit: tenths of a second
TicksPerSecond == 10
MaxDurationLen == MAX_DURATION * TicksPerSecond

\* durations ffprobe prints for a segment file (tenths of a second)
ReportedDurations == {20, 30, 450, 1000}
\* sizes in bytes of a segment file; 1500 bytes are a tenth of a second of
\* the estimate, so that the estimate of these sizes is exact
FileSizes == {0, 30000}
BytesPerSecond == 15000
\* "return 3.0  # Default fallback"
DefaultDuration == 3 * TicksPerSecond

\* what happens in _get_audio_duration: ffprobe prints a number, or the call
\* or float() raise and os.path.getsize gives the size or raises in turn
ProbeResults ==
    [kind : {"reported"}, value : ReportedDurations]
        \cup [kind : {"estimated"}, value : FileSizes]
        \cup [kind : {"default"}, value : {0}]

\* the value _get_audio_duration returns
AudioDuration(r) ==
    CASE r.kind = "reported" -> r.value
      [] r.kind = "estimated" -> (r.value * TicksPerSecond) \div BytesPerSecond
      [] r.kind = "default" -> DefaultDuration

\* durations _get_audio_duration can return for one narration line
LineDurations == {AudioDuration(r) : r \in ProbeResults}

AudioKeys == {"audio_timings", "combined_audio_file"}

AudioInit ==
    /\ apc = "start"
    /\ workspace \in {{"run_dir", "narration_lines"}, {"run_dir"}}
    /\ narration \in 0..MaxLines
    /\ gtts_available \in BOOLEAN
    /\ pydub_available \in BOOLEAN
    /\ timings = <<>>
    /\ tts_total = 0
    /\ audio_timings = <<>>
    /\ combined_len = -1
    /\ speed_plan = <<>>
    /\ speed_runs = 0
    /\ audio_mix = "none"
    /\ music_len = -1
    /\ output_len = -1
    /\ audio_result = "none"

\* "return False" of AudioAgent.execute
AudioFail ==
    /\ audio_result' = FALSE
    /\ apc' = "done"

\* execute: the narration_lines check, then text_to_speech up to its loop
AudioStart ==
    /\ apc = "start"
    /\ IF "narration_lines" \notin workspace \/ ~gtts_available
       THEN AudioFail
       ELSE apc' = "tts" /\ UNCHANGED audio_result
    /\ UNCHANGED <<workspace, narration, gtts_available, pydub_available,
                   timings, tts_total, audio_timings, combined_len, speed_plan,
                   speed_runs, audio_mix, music_len, output_len>>
    /\ UNCHANGED outside_audio

\* faulty variant: every segment is timed from zero instead of from the
\* running total
SegmentFromZero(total, duration) ==
    [start_time |-> 0, duration |-> duration, end_time |-> duration]

\* timings.append({... 'start_time': total_duration, 'duration': duration,
\*                 'end_time': total_duration + duration})
Segment(total, duration) ==
    [start_time |-> total, duration |-> duration, end_time |-> total + duration]

\* one iteration of the loop of text_to_speech: gTTS and ffprobe produce the
\* line's duration, or raise, and then text_to_speech returns []
TtsLine ==
    /\ apc = "tts"
    /\ Len(timings) < narration
    /\ \E ok \in BOOLEAN, duration \in LineDurations :
         IF ok
         THEN /\ timings' = Append(timings, Segment(tts_total, duration))
              /\ tts_total' = tts_total + duration
              /\ UNCHANGED <<apc, audio_result>>
         ELSE /\ AudioFail
              /\ UNCHANGED <<timings, tts_total>>
    /\ UNCHANGED <<workspace, narration, gtts_available, pydub_available,
                   audio_timings, combined_len, speed_plan, speed_runs,
                   audio_mix, music_len, output_len>>
    /\ UNCHANGED outside_audio

\* text_to_speech returns timings; execute: "if not timings: return False",
\* workspace["audio_timings"] = timings, then combine_audio up to its try
TtsReturn ==
    /\ apc = "tts"
    /\ Len(timings) = narration
    /\ IF timings = <<>>
       THEN AudioFail /\ UNCHANGED <<workspace, audio_timings>>
       ELSE /\ workspace' = workspace \cup {"audio_timings"}
            /\ audio_timings' = timings
            /\ IF pydub_available
               THEN apc' = "combine" /\ UNCHANGED audio_result
               ELSE AudioFail
    /\ UNCHANGED <<narration, gtts_available, pydub_available, timings,
                   tts_total, combined_len, speed_plan, speed_runs, audio_mix,
                   music_len, output_len>>
    /\ UNCHANGED outside_audio

RECURSIVE SumDurations(_)
\* len(combined) after "combined += segment" over all timings
SumDurations(ts) ==
    IF ts = <<>> THEN 0 ELSE Head(ts).duration + SumDurations(Tail(ts))

RECURSIVE CeilLog2(_, _)
\* math.ceil(math.log(num / den) / math.log(2)) for num > den > 0
CeilLog2(num, den) ==
    IF num <= den THEN 0 ELSE 1 + CeilLog2(num, 2 * den)

\* faulty variant: the number of applications is rounded down
NumApplicationsFloor(total_len, max_len) == CeilLog2(total_len, max_len) - 1

\* math.ceil(math.log(speed_factor) / math.log(0.5))
\* with speed_factor = max_len / total_len
NumApplications(total_len, max_len) == CeilLog2(total_len, max_len)

\* the filter chain: count filters "atempo=v" with v = (num / den) ** (1 / root)
SpeedPlan(total_len, max_len) ==
    IF 2 * max_len < total_len
    THEN LET num_applications == NumApplications(total_len, max_len) IN
         [count |-> num_applications, root |-> num_applications,
          num |-> max_len, den |-> total_len]
    ELSE [count |-> 1, root |-> 1, num |-> max_len, den |-> total_len]

\* faulty variant: a narration exactly at the ceiling is adjusted too
NeedsSpeedupInclusive(total_len) == total_len >= MaxDurationLen

\* "if total_duration > self.config["max_duration"]"
NeedsSpeedup(total_len) == total_len > MaxDurationLen

\* ffmpeg's atempo filter scales the tempo: a chain whose values multiply to
\* num / den turns audio of length len_in into audio of length
\* len_in / (num / den)
Atempo(len_in, plan) == (len_in * plan.den) \div plan.num

\* combine_audio: the segments are loaded and concatenated, the duration is
\* compared with max_duration and the speed filters are computed
Combine ==
    /\ apc = "combine"
    /\ \E loaded \in BOOLEAN :
         IF loaded
         THEN /\ combined_len' = SumDurations(audio_timings)
              /\ IF NeedsSpeedup(combined_len')
                 THEN /\ speed_plan' = SpeedPlan(combined_len', MaxDurationLen)
                      /\ apc' = "speedup"
                 ELSE /\ apc' = "export"
                      /\ UNCHANGED speed_plan
              /\ UNCHANGED audio_result
         ELSE /\ AudioFail
              /\ UNCHANGED <<combined_len, speed_plan>>
    /\ UNCHANGED <<workspace, narration, gtts_available, pydub_available,
                   timings, tts_total, audio_timings, speed_runs, audio_mix,
                   music_len, output_len>>
    /\ UNCHANGED outside_audio

\* "await run_process(speedup_cmd)" and
\* "combined = AudioSegment.from_file(speedup_file)"
Speedup ==
    /\ apc = "speedup"
    /\ speed_runs' = speed_runs + 1
    /\ \E exit \in Exits, out \in {"missing", "nonempty"} :
         IF exit = "zero" /\ out = "nonempty"
         THEN /\ combined_len' = Atempo(combined_len, speed_plan)
              /\ apc' = "export"
              /\ UNCHANGED audio_result
         ELSE /\ AudioFail
              /\ UNCHANGED combined_len
    /\ UNCHANGED <<workspace, narration, gtts_available, pydub_available,
                   timings, tts_total, audio_timings, speed_plan, audio_mix,
                   music_len, output_len>>
    /\ UNCHANGED outside_audio

\* lengths of the background track (tenths of a second); 0 is a track
\* without audio
MusicLengths == {0, 7, 400, 20000}

\* faulty variant: the number of repeats rounded down
RepeatsFloor(voice_len, track_len) == voice_len \div track_len

\* "repeats = math.ceil(len(voice_audio) / len(bg_music))"
Repeats(voice_len, track_len) == (voice_len + track_len - 1) \div track_len

\* "if len(bg_music) < len(voice_audio): bg_music = bg_music * repeats"
Looped(track_len, voice_len) ==
    IF track_len < voice_len
    THEN track_len * Repeats(voice_len, track_len)
    ELSE track_len

\* "bg_music = bg_music[:len(voice_audio)]": a slice keeps what there is up
\* to the given length
Trimmed(track_len, voice_len) == Min(track_len, voice_len)

\* "voice_audio.overlay(bg_music)": pydub overlays onto the first segment and
\* does not extend it, a longer second segment is truncated
Overlay(voice_len, track_len) == voice_len

\* the voice is exported, mixed with the background music when there is one
\* (a failed mix, which a track of length 0 is by its division, falls back
\* to the voice alone), and the output file is verified; execute then stores
\* workspace["combined_audio_file"]
Export ==
    /\ apc = "export"
    /\ \E music \in BOOLEAN, track \in MusicLengths, mix_ok \in BOOLEAN,
          out \in {"empty", "nonempty"} :
         LET mixes == music /\ mix_ok /\ track > 0
             bg == Trimmed(Looped(track, combined_len), combined_len)
         IN  /\ audio_mix' = IF mixes THEN "mixed" ELSE "voice"
             /\ music_len' = IF mixes THEN bg ELSE -1
             /\ IF out = "nonempty"
                THEN /\ output_len' = IF mixes
                                      THEN Overlay(combined_len, bg)
                                      ELSE combined_len
                     /\ workspace' = workspace \cup {"combined_audio_file"}
                     /\ audio_result' = TRUE
                     /\ apc' = "done"
                ELSE AudioFail /\ UNCHANGED <<workspace, output_len>>
    /\ UNCHANGED <<narration, gtts_available, pydub_available, timings,
                   tts_total, audio_timings, combined_len, speed_plan,
                   speed_runs>>
    /\ UNCHANGED outside_audio

AudioNext ==
    \/ AudioStart
    \/ TtsLine
    \/ TtsReturn
    \/ Combine
    \/ Speedup
    \/ Export

AudioOnlyInit ==
    /\ AudioInit /\ NoVideo /\ NoPartition /\ NoRender /\ NoLookup
    /\ NoPipeline /\ NoAbort /\ NoHelpers

SpecAudio == AudioOnlyInit /\ [][AudioNext]_vars

(***************************************************************************)
(* generate_frame_chunk: the segment a frame belongs to                    *)
(***************************************************************************)
\* durations of the segments of the timelines looked up (tenths of a second)
SegDurations == {5, 10, 15, 20, 25, 30}
\* self.fps: the default 30 and a rate whose frame times miss the boundaries
FpsValues == {3, 30}

RECURSIVE BuildTimeline(_, _, _)
\* the loop of text_to_speech over the durations durs, from segment i on
BuildTimeline(durs, i, total) ==
    IF i > Len(durs) THEN <<>>
    ELSE <<Segment(total, durs[i])>>
         \o BuildTimeline(durs, i + 1, total + durs[i])

DurationSeqs == UNION {[1..n -> SegDurations] : n \in 1..MaxSegments}
Timelines == {BuildTimeline(durs, 1, 0) : durs \in DurationSeqs}

\* faulty variant: the frame count of the timeline rounded up
TimelineFramesCeil(ts, fps) ==
    (ts[Len(ts)].end_time * fps + TicksPerSecond - 1) \div TicksPerSecond

\* total_duration = timings[-1]['end_time']
\* int(total_duration * self.fps)
TimelineFrames(ts, fps) == (ts[Len(ts)].end_time * fps) \div TicksPerSecond

\* time_position = frame_num / fps, compared with a time in ticks
TimeAtLeast(frame_num, fps, ticks) == frame_num * TicksPerSecond >= ticks * fps
TimeAtMost(frame_num, fps, ticks) == frame_num * TicksPerSecond <= ticks * fps

\* faulty variant: the end of a segment is excluded
ActiveHalfOpen(timing, frame_num, fps) ==
    /\ TimeAtLeast(frame_num, fps, timing.start_time)
    /\ ~TimeAtLeast(frame_num, fps, timing.end_time)

\* timing['start_time'] <= time_position <= timing['end_time']
Active(timing, frame_num, fps) ==
    /\ TimeAtLeast(frame_num, fps, timing.start_time)
    /\ TimeAtMost(frame_num, fps, timing.end_time)

RECURSIVE FindSegment(_, _, _, _)
\* "for timing in timings: if ...: current_segment = timing; break",
\* as the index of the segment found, 0 for None
FindSegment(ts, i, frame_num, fps) ==
    IF i > Len(ts) THEN 0
    ELSE IF Active(ts[i], frame_num, fps) THEN i
    ELSE FindSegment(ts, i + 1, frame_num, fps)

\* faulty variant: the progress measured from the end of the segment
ProgressFromEnd(timing, frame_num, fps) ==
    <<timing.end_time * fps - frame_num * TicksPerSecond,
      timing.duration * fps>>

\* segment_progress = (time_position - current_segment['start_time'])
\*                    / segment_duration
\* with time_position = frame_num / fps, as a fraction: both terms are
\* multiplied by fps
Progress(timing, frame_num, fps) ==
    <<frame_num * TicksPerSecond - timing.start_time * fps,
      timing.duration * fps>>

\* faulty variant: the text does not fade out
AlphaNoFadeOut(progress) ==
    IF 5 * progress[1] < progress[2]
    THEN (progress[1] * 5 * 255) \div progress[2]
    ELSE 255

\* create_text_frame, for a progress given as a fraction:
\*   alpha = 255
\*   if progress_in_segment < 0.2: alpha = int(progress_in_segment * 5 * 255)
\*   elif progress_in_segment > 0.8:
\*       alpha = int((1 - progress_in_segment) * 5 * 255)
\* int() of a value that is not negative is its whole part
Alpha(progress) ==
    LET num == progress[1]
        den == progress[2]
    IN  IF 5 * num < den
        THEN (num * 5 * 255) \div den
        ELSE IF 5 * num > 4 * den
             THEN ((den - num) * 5 * 255) \div den
             ELSE 255

LookupInit ==
    /\ lpc = "start"
    /\ l_timings \in Timelines
    /\ l_fps \in FpsValues
    /\ l_total = TotalFrames(TimelineFrames(l_timings, l_fps))
    /\ l_frame \in 0..(l_total - 1)
    /\ l_segment = -1
    /\ l_kind = "none"
    /\ l_progress = <<>>
    /\ l_alpha = -1

\* one iteration of the frame loop up to the choice of the frame's content
LookupFrame ==
    /\ lpc = "start"
    /\ l_segment' = FindSegment(l_timings, 1, l_frame, l_fps)
    /\ l_kind' = IF l_segment' # 0 THEN "text" ELSE "background"
    /\ l_progress' = IF l_segment' # 0
                     THEN Progress(l_timings[l_segment'], l_frame, l_fps)
                     ELSE <<>>
    /\ l_alpha' = IF l_segment' # 0 THEN Alpha(l_progress') ELSE -1
    /\ lpc' = "done"
    /\ UNCHANGED <<workspace, l_timings, l_fps, l_frame, l_total>>
    /\ UNCHANGED outside_lookup

LookupNext == LookupFrame

LookupOnlyInit ==
    /\ LookupInit /\ workspace = {}
    /\ NoVideo /\ NoPartition /\ NoRender /\ NoAudio /\ NoPipeline /\ NoAbort
    /\ NoHelpers

SpecLookup == LookupOnlyInit /\ [][LookupNext]_vars

(***************************************************************************)
(* CoordinatorAgent.execute: the stages run in sequence.  The audio stage  *)
(* is the AudioAgent above; the other stages are taken by what the         *)
(* coordinator sees of them: the workspace keys they need and leave, and   *)
(* the boolean they return.                                                *)
(***************************************************************************)
\* the names of self.pipeline_steps, in order
PipelineSteps == <<"content", "audio", "visual", "video", "upload">>

ContentKeys == {"health_tip", "script", "narration_lines"}

PipelineInit ==
    /\ cpc = "loop"
    /\ step = 1
    /\ stages_run = <<>>
    /\ stage_results = <<>>
    /\ pipeline_result = "none"
    /\ workspace = {"run_dir"}
    /\ apc = "idle" /\ narration = 0
    /\ gtts_available \in BOOLEAN
    /\ pydub_available \in BOOLEAN
    /\ timings = <<>> /\ tts_total = 0 /\ audio_timings = <<>>
    /\ combined_len = -1 /\ speed_plan = <<>> /\ speed_runs = 0
    /\ audio_mix = "none" /\ music_len = -1 /\ output_len = -1
    /\ audio_result = "none"

\* faulty variant: the loop goes on after a stage that failed
ContinueAlways(success) == TRUE

\* "if not success: ... return False", otherwise the loop goes on
Continue(success) == success

\* the end of one iteration of the loop, given what agent.execute() returned
StageReturns(success) ==
    /\ stage_results' = Append(stage_results, success)
    /\ IF Continue(success)
       THEN step' = step + 1 /\ cpc' = "loop" /\ UNCHANGED pipeline_result
       ELSE pipeline_result' = FALSE /\ cpc' = "done" /\ UNCHANGED step

\* agent = self.agents[agent_name]; success = await agent.execute()
Called(name) ==
    /\ cpc = "loop"
    /\ step <= Len(PipelineSteps)
    /\ PipelineSteps[step] = name
    /\ stages_run' = Append(stages_run, name)

\* ContentAgent.execute: on success the narration lines extracted from the
\* script, possibly none, are stored
RunContent ==
    /\ Called("content")
    /\ \E ok \in BOOLEAN, lines \in 0..MaxLines :
         /\ IF ok
            THEN /\ workspace' = workspace \cup ContentKeys
                 /\ narration' = lines
            ELSE UNCHANGED <<workspace, narration>>
         /\ StageReturns(ok)
    /\ UNCHANGED <<apc, gtts_available, pydub_available, timings, tts_total,
                   audio_timings, combined_len, speed_plan, speed_runs,
                   audio_mix, music_len, output_len, audio_result>>
    /\ UNCHANGED <<video_vars, part_vars, render_vars, lookup_vars,
                   aborted, manifest_vars, wrap_vars>>

\* the coordinator calls AudioAgent.execute
StartAudio ==
    /\ Called("audio")
    /\ apc = "idle"
    /\ apc' = "start"
    /\ cpc' = "in_audio"
    /\ UNCHANGED <<workspace, step, stage_results, pipeline_result>>
    /\ UNCHANGED <<narration, gtts_available, pydub_available, timings,
                   tts_total, audio_timings, combined_len, speed_plan,
                   speed_runs, audio_mix, music_len, output_len,
                   audio_result>>
    /\ UNCHANGED <<video_vars, part_vars, render_vars, lookup_vars,
                   aborted, manifest_vars, wrap_vars>>

\* AudioAgent.execute returned
FinishAudio ==
    /\ cpc = "in_audio"
    /\ apc = "done"
    /\ StageReturns(audio_result)
    /\ UNCHANGED <<workspace, stages_run>>
    /\ UNCHANGED <<audio_vars, video_vars, part_vars, render_vars, lookup_vars,
                   aborted, manifest_vars, wrap_vars>>

\* VisualAgent.execute: without workspace["audio_timings"] generate_frames
\* returns 0 and the stage fails
RunVisual ==
    /\ Called("visual")
    /\ \E ok \in BOOLEAN :
         /\ ok => "audio_timings" \in workspace
         /\ workspace' = IF ok THEN workspace \cup VisualKeys ELSE workspace
         /\ StageReturns(ok)
    /\ UNCHANGED <<audio_vars, video_vars, part_vars, render_vars, lookup_vars,
                   aborted, manifest_vars, wrap_vars>>

\* VideoAgent.execute: create_video needs its input keys
RunVideo ==
    /\ Called("video")
    /\ \E ok \in BOOLEAN :
         /\ ok => RequiredKeys \subseteq workspace
         /\ workspace' = IF ok THEN workspace \cup ResultKeys ELSE workspace
         /\ StageReturns(ok)
    /\ UNCHANGED <<audio_vars, video_vars, part_vars, render_vars, lookup_vars,
                   aborted, manifest_vars, wrap_vars>>

\* UploadAgent.execute: skipped (True) unless auto_upload is set
RunUpload ==
    /\ Called("upload")
    /\ \E auto_upload \in BOOLEAN, ok \in BOOLEAN :
         /\ (auto_upload /\ ok) =>
               {"output_video", "health_tip"} \subseteq workspace
         /\ workspace' = IF auto_upload /\ ok
                         THEN workspace \cup {"youtube_video_id",
                                              "youtube_video_url"}
                         ELSE workspace
         /\ StageReturns(~auto_upload \/ ok)
    /\ UNCHANGED <<audio_vars, video_vars, part_vars, render_vars, lookup_vars,
                   aborted, manifest_vars, wrap_vars>>

\* the loop is exhausted: "return True"
PipelineReturn ==
    /\ cpc = "loop"
    /\ step > Len(PipelineSteps)
    /\ pipeline_result' = TRUE
    /\ cpc' = "done"
    /\ UNCHANGED <<workspace, step, stages_run, stage_results>>
    /\ UNCHANGED <<audio_vars, video_vars, part_vars, render_vars, lookup_vars,
                   aborted, manifest_vars, wrap_vars>>

PipelineNext ==
    \/ RunContent
    \/ StartAudio
    \/ AudioStart
    \/ TtsLine
    \/ TtsReturn
    \/ Combine
    \/ Speedup
    \/ Export
    \/ FinishAudio
    \/ RunVisual
    \/ RunVideo
    \/ RunUpload
    \/ PipelineReturn

PipelineOnlyInit ==
    /\ PipelineInit /\ NoVideo /\ NoPartition /\ NoRender /\ NoLookup
    /\ NoAbort /\ NoHelpers

SpecPipeline == PipelineOnlyInit /\ [][PipelineNext]_vars

\* the whole job next to a call of generate_frames on its own
EmptyInputInit == PipelineOnlyInit \/ RenderOnlyInit

EmptyInputNext == PipelineNext \/ RenderNext

SpecEmptyInput == EmptyInputInit /\ [][EmptyInputNext]_vars

(***************************************************************************)
(* main: the job is interrupted (SIGINT) while a stage is running.         *)
(* Nothing in the stages handles the interrupt, so what it does is the     *)
(* interpreter's doing: KeyboardInterrupt is raised where the main thread  *)
(* is ("raised"), or asyncio.run cancels the main task and the coroutine   *)
(* sees it at its next suspension ("deferred").  An encoder process is     *)
(* never killed by the code; it ends only if the signal reached it too or  *)
(* the interpreter's cleanup of the subprocess transport kills it.         *)
(***************************************************************************)
InterruptModes == {"raised", "deferred"}

\* the interrupt arrives while generate_frames runs.  Raised in the parent,
\* it leaves the "with ctx.Pool" block, which terminates the pool, and no
\* "except Exception" catches it; deferred, the synchronous loop over
\* imap_unordered goes on and the workers, which check no flag, render on
AbortRender ==
    /\ aborted = "no"
    /\ rpc \in {"start", "pool", "returned"}
    /\ \E mode \in InterruptModes :
         /\ aborted' = mode
         /\ IF mode = "raised"
            THEN /\ rpc' = "interrupted"
                 /\ cstate' = [c \in ChunkIds |->
                                 IF cstate[c] \in {"queued", "running"}
                                 THEN "killed" ELSE cstate[c]]
                 /\ outqueue' = <<>>
            ELSE UNCHANGED <<rpc, cstate, outqueue>>
    /\ UNCHANGED <<workspace, total_frames, num_processes, chunks, cnext,
                   generated, written, results, frames_result, exec_result,
                   timeline_len, bg_readable, font_loadable, cfont, cause,
                   late>>
    /\ UNCHANGED <<video_vars, part_vars, audio_vars, lookup_vars, pipe_vars,
                   manifest_vars, wrap_vars>>

\* what becomes of an encoder process whose create_video was interrupted
EncoderFates == {"killed", "running"}

\* the interrupt arrives while create_video runs: the coroutine is left at
\* its await (CancelledError and KeyboardInterrupt are no Exception); if an
\* encoder was started, no statement of the call kills it
AbortVideo ==
    /\ aborted = "no"
    /\ vpc \notin {"idle", "done"}
    /\ \E mode \in InterruptModes : aborted' = mode
    /\ vpc' = "interrupted"
    /\ IF vpc \in EncoderPositions
       THEN /\ attempts' = Append(attempts, Attempt(TierAt(vpc), "interrupted",
                                                    output_video))
            /\ encoder' \in EncoderFates
       ELSE /\ UNCHANGED attempts
            /\ IF vpc = "blocked"
               THEN encoder' \in EncoderFates
               ELSE UNCHANGED encoder
    /\ UNCHANGED <<workspace, audio_exists, frame_files, gpu_config, use_gpu,
                   output_video, probe, video_duration, warnings, copied,
                   result>>
    /\ UNCHANGED <<part_vars, render_vars, audio_vars, lookup_vars, pipe_vars,
                   manifest_vars, wrap_vars>>

\* an interrupted job, in the visual stage or in the video stage, with the
\* worker's resources in place
AbortInit ==
    \/ RenderOnlyInit /\ timeline_len = 1 /\ bg_readable /\ font_loadable
    \/ VideoOnlyInit

AbortNext ==
    \/ RenderNext
    \/ VideoNext
    \/ AbortRender
    \/ AbortVideo

SpecAbort == AbortInit /\ [][AbortNext]_vars

(***************************************************************************)
(* The whole job: CoordinatorAgent.execute with the visual stage run by    *)
(* the worker pool above and the video stage by the encoding orchestrator  *)
(* above.  The content, audio and upload stages are taken by the workspace *)
(* keys they leave and the boolean they return.                            *)
(***************************************************************************)
JobInit ==
    /\ cpc = "loop"
    /\ step = 1
    /\ stages_run = <<>>
    /\ stage_results = <<>>
    /\ pipeline_result = "none"
    /\ workspace = {"run_dir"}

\* ContentAgent.execute as the coordinator sees it: on success the script
\* and the narration lines are stored
JobContent ==
    /\ Called("content")
    /\ \E ok \in BOOLEAN :
         /\ workspace' = IF ok THEN workspace \cup ContentKeys ELSE workspace
         /\ StageReturns(ok)
    /\ UNCHANGED <<audio_vars, video_vars, part_vars, render_vars, lookup_vars,
                   aborted, manifest_vars, wrap_vars>>

\* AudioAgent.execute as the coordinator sees it: it fails before any
\* timeline is stored (no narration_lines key, no lines, or text_to_speech
\* returned nothing), or after workspace["audio_timings"] was stored
\* (combine_audio returned nothing), or it stores both keys and returns True
AudioOutcomes == {"no_timings", "no_combined", "ok"}

JobAudio ==
    /\ Called("audio")
    /\ \E outcome \in AudioOutcomes :
         /\ outcome # "no_timings" => "narration_lines" \in workspace
         /\ workspace' = CASE outcome = "no_timings" -> workspace
                           [] outcome = "no_combined" ->
                                workspace \cup {"audio_timings"}
                           [] outcome = "ok" -> workspace \cup AudioKeys
         /\ StageReturns(outcome = "ok")
    /\ UNCHANGED <<audio_vars, video_vars, part_vars, render_vars, lookup_vars,
                   aborted, manifest_vars, wrap_vars>>

\* the coordinator calls VisualAgent.execute, which calls generate_frames
\* with the timeline found in the workspace
StartVisual ==
    /\ Called("visual")
    /\ rpc = "idle"
    /\ rpc' = "start"
    /\ cpc' = "in_visual"
    /\ timeline_len' = IF "audio_timings" \in workspace THEN 1 ELSE 0
    /\ total_frames' \in IF timeline_len' = 0 THEN {0}
                        ELSE {TotalFrames(n) : n \in 0..MaxTimelineFrames}
    /\ num_processes' \in 1..MaxPoolSize
    /\ bg_readable' \in BOOLEAN
    /\ font_loadable' \in BOOLEAN
    /\ written' = [f \in 0..(total_frames' - 1) |-> <<>>]
    /\ UNCHANGED <<workspace, step, stage_results, pipeline_result>>
    /\ UNCHANGED <<chunks, cstate, cnext, generated, outqueue, results,
                   frames_result, exec_result, cfont, cause, late>>
    /\ UNCHANGED <<audio_vars, video_vars, part_vars, lookup_vars, aborted,
                   manifest_vars, wrap_vars>>

\* VisualAgent.execute returned
FinishVisual ==
    /\ cpc = "in_visual"
    /\ rpc = "done"
    /\ StageReturns(exec_result)
    /\ UNCHANGED <<workspace, stages_run>>
    /\ UNCHANGED <<audio_vars, video_vars, part_vars, render_vars, lookup_vars,
                   aborted, manifest_vars, wrap_vars>>

\* the frame files found in frames_dir
FramesOnDisk == {f \in FrameIds : written[f] # <<>>}

\* the coordinator calls VideoAgent.execute, which calls create_video on
\* what the earlier stages left behind
StartVideo ==
    /\ Called("video")
    /\ vpc = "idle"
    /\ vpc' = "start"
    /\ cpc' = "in_video"
    /\ audio_exists' = ("combined_audio_file" \in workspace)
    /\ frame_files' = Cardinality(FramesOnDisk)
    /\ gpu_config' \in BOOLEAN
    /\ UNCHANGED <<workspace, step, stage_results, pipeline_result>>
    /\ UNCHANGED <<use_gpu, attempts, output_video, probe, video_duration,
                   warnings, copied, result, encoder>>
    /\ UNCHANGED <<audio_vars, render_vars, part_vars, lookup_vars, aborted,
                   manifest_vars, wrap_vars>>

\* VideoAgent.execute returned what create_video returned
FinishVideo ==
    /\ cpc = "in_video"
    /\ vpc = "done"
    /\ StageReturns(result)
    /\ UNCHANGED <<workspace, stages_run>>
    /\ UNCHANGED <<audio_vars, video_vars, part_vars, render_vars, lookup_vars,
                   aborted, manifest_vars, wrap_vars>>

JobNext ==
    \/ JobContent
    \/ JobAudio
    \/ StartVisual
    \/ StartGenerate
    \/ \E c \in ChunkIds : WorkerStart(c)
    \/ \E c \in ChunkIds : RenderFrame(c)
    \/ \E c \in ChunkIds : RenderFail(c)
    \/ \E c \in ChunkIds : WorkerReturn(c)
    \/ Collect
    \/ FinishGenerate
    \/ Execute
    \/ FinishVisual
    \/ StartVideo
    \/ CheckInputs
    \/ ProbeAudio
    \/ TestVideoToolbox
    \/ RunHwDirect
    \/ FinishDirect
    \/ RunConcat
    \/ GetAudioDuration
    \/ RunStatic
    \/ FinishFallback
    \/ EncoderHangs
    \/ FinishVideo
    \/ RunUpload
    \/ PipelineReturn

JobOnlyInit ==
    /\ JobInit /\ NoVideo /\ NoPartition /\ NoRender /\ NoAudio /\ NoLookup
    /\ NoAbort /\ NoHelpers

SpecJob == JobOnlyInit /\ [][JobNext]_vars

(***************************************************************************)
(* The frame files and the concat manifest: generate_frame_chunk names the *)
(* files, create_video lists and sorts them, _create_video_fallback writes *)
(* one line per listed file.  A file name is the sequence of the code      *)
(* points of its characters, a manifest line is taken by the file name in  *)
(* it.  The directory is taken by some of its files: sorting is by a total *)
(* order on names, so the manifest lists these files in the order in which *)
(* it lists them among all the others.                                     *)
(***************************************************************************)
\* the width of {frame_num:04d}
PadWidth == 4
\* "frame_" and ".jpg"
FramePrefix == <<102, 114, 97, 109, 101, 95>>
FrameSuffix == <<46, 106, 112, 103>>
\* the code point of the digit "0"
DigitZero == 48

\* frame numbers around the changes in the number of digits
SampleIndices == {0, 7, 42, 999, 1000, 1001, 9999, 10000, 10001}

RECURSIVE Digits(_)
\* the decimal digits of n
Digits(n) == IF n < 10 THEN <<n>> ELSE Append(Digits(n \div 10), n % 10)

RECURSIVE ZeroPad(_, _)
\* zeros in front up to the width, never fewer digits than the number has
ZeroPad(ds, width) ==
    IF Len(ds) >= width THEN ds ELSE ZeroPad(<<0>> \o ds, width)

\* f"frame_{frame_num:04d}.jpg"
FrameName(n) ==
    LET ds == ZeroPad(Digits(n), PadWidth)
    IN  FramePrefix \o [k \in 1..Len(ds) |-> DigitZero + ds[k]] \o FrameSuffix

RECURSIVE StrLess(_, _)
\* a < b for Python strings: by code point at the first difference, a proper
\* prefix before the longer string
StrLess(a, b) ==
    IF b = <<>> THEN FALSE
    ELSE IF a = <<>> THEN TRUE
    ELSE IF Head(a) # Head(b) THEN Head(a) < Head(b)
    ELSE StrLess(Tail(a), Tail(b))

RECURSIVE SortNames(_)
\* frame_files.sort()
SortNames(names) ==
    IF names = {} THEN <<>>
    ELSE LET least == CHOOSE x \in names :
                        \A y \in names \ {x} : StrLess(x, y)
         IN  <<least>> \o SortNames(names \ {least})

\* f.startswith('frame_') and f.endswith('.jpg')
IsFrameFile(name) ==
    /\ Len(name) >= Len(FramePrefix) + Len(FrameSuffix)
    /\ SubSeq(name, 1, Len(FramePrefix)) = FramePrefix
    /\ SubSeq(name, Len(name) - Len(FrameSuffix) + 1, Len(name)) = FrameSuffix

ManifestInit ==
    /\ mpc = "start"
    /\ m_dir \in (SUBSET SampleIndices) \ {{}}
    /\ m_listing = <<>>
    /\ m_manifest = <<>>

\* create_video: the listing of frames_dir, filtered and sorted
ListFrames ==
    /\ mpc = "start"
    /\ m_listing' = SortNames({name \in {FrameName(n) : n \in m_dir} :
                                 IsFrameFile(name)})
    /\ mpc' = "listed"
    /\ UNCHANGED <<m_dir, m_manifest>>
    /\ UNCHANGED outside_manifest

\* _create_video_fallback: "for frame_file in frame_files: file_list.write"
WriteManifest ==
    /\ mpc = "listed"
    /\ m_manifest' = m_listing
    /\ mpc' = "written"
    /\ UNCHANGED <<m_dir, m_listing>>
    /\ UNCHANGED outside_manifest

ManifestNext ==
    \/ ListFrames
    \/ WriteManifest

ManifestOnlyInit ==
    /\ ManifestInit /\ workspace = {}
    /\ NoVideo /\ NoPartition /\ NoRender /\ NoAudio /\ NoLookup
    /\ NoPipeline /\ NoAbort /\ NoWrap

SpecManifest == ManifestOnlyInit /\ [][ManifestNext]_vars

(***************************************************************************)
(* wrap_text.  A word is taken by its measured width, a line by the words  *)
(* in it; the width of a line is that of its words and of the spaces       *)
(* between them.                                                           *)
(***************************************************************************)
\* number of words of a text
MaxWords == 3
\* measured widths of a word, the last one above every budget
WordWidths == {3, 5, 12}
\* max_width
WidthBudgets == {8, 10}
\* the measured width of the blank that ' '.join puts between two words
SpaceWidth == 1

RECURSIVE WordsWidth(_)
WordsWidth(line) ==
    IF line = <<>> THEN 0 ELSE Head(line) + WordsWidth(Tail(line))

\* draw.textlength(' '.join(line), font=font)
TextWidth(line) ==
    IF line = <<>> THEN 0
    ELSE WordsWidth(line) + SpaceWidth * (Len(line) - 1)

WrapInit ==
    /\ wpc = "loop"
    /\ w_words \in UNION {[1..n -> WordWidths] : n \in 0..MaxWords}
    /\ w_max \in WidthBudgets
    /\ w_i = 1
    /\ w_current = <<>>
    /\ w_lines = <<>>

\* one iteration of "for word in words"
WrapWord ==
    /\ wpc = "loop"
    /\ w_i <= Len(w_words)
    /\ LET test_line == Append(w_current, w_words[w_i])
       IN  IF TextWidth(test_line) < w_max
           THEN /\ w_current' = test_line
                /\ UNCHANGED w_lines
           ELSE /\ w_lines' = Append(w_lines, w_current)
                /\ w_current' = <<w_words[w_i]>>
    /\ w_i' = w_i + 1
    /\ UNCHANGED <<wpc, w_words, w_max>>
    /\ UNCHANGED outside_wrap

\* after the loop: "if current_line: wrapped_lines.append(...)", return
WrapReturn ==
    /\ wpc = "loop"
    /\ w_i > Len(w_words)
    /\ w_lines' = IF w_current # <<>> THEN Append(w_lines, w_current)
                  ELSE w_lines
    /\ wpc' = "done"
    /\ UNCHANGED <<w_words, w_max, w_i, w_current>>
    /\ UNCHANGED outside_wrap

WrapNext ==
    \/ WrapWord
    \/ WrapReturn

WrapOnlyInit ==
    /\ WrapInit /\ workspace = {}
    /\ NoVideo /\ NoPartition /\ NoRender /\ NoAudio /\ NoLookup
    /\ NoPipeline /\ NoAbort /\ NoManifest

SpecWrap == WrapOnlyInit /\ [][WrapNext]_vars

(***************************************************************************)
(* Claims about the encoding orchestrator (checked under SpecVideo)        *)
(***************************************************************************)
\* the orchestrator accepted the run: exit status 0 and the output file is there
Accepted(a) == a.exit = "zero" /\ a.output # "missing"
\* what the specification asks of an accepted output: present and non-empty
Verified(a) == a.exit = "zero" /\ a.output = "nonempty"
InputsOk ==
    RequiredKeys \subseteq workspace /\ audio_exists /\ frame_files > 0

C2_FailureOnlyAfterAllTiers ==
    (vpc = "done" /\ result = FALSE /\ InputsOk)
       => /\ Len(attempts) = Len(TierOrder)
          /\ \A i \in 1..Len(attempts) : ~Accepted(attempts[i])

\* C3: for every tier whose encoder run exits 0, a missing or empty output
\* file or a failed duration probe counts as a failure of that tier: the
\* call does not report success on that run, and the next tier of the
\* chain, if there is one, is attempted.
C3_VerificationFailureContinuesChain ==
    vpc = "done" =>
      \A i \in 1..Len(attempts) :
        ( /\ attempts[i].exit = "zero"
          /\ \/ ~Verified(attempts[i])
             \/ (i = Len(attempts) /\ probe = "failed") )
        => /\ ~(i = Len(attempts) /\ result = TRUE)
           /\ i < Len(TierOrder) => Len(attempts) > i

C5_DurationWarning ==
    (vpc = "done" /\ result = TRUE)
       => ("duration" \in warnings <=> video_duration > ShortsLimit)

(***************************************************************************)
(* Claims about the chunk partition (checked under SpecPartition)          *)
(***************************************************************************)
CeilDiv(a, b) == (a + b - 1) \div b
ChunkLen(ch) == ch.end - ch.start

\* C6: for every totalFrames >= 1 and workerCount >= 1 the chunks partition
\* [0, totalFrames) exactly: ascending and contiguous, the first starts at
\* 0, each start is the previous exclusive end, the last ends at
\* totalFrames, no chunk is empty and no two chunks overlap.
C6_ExactPartition ==
    ppc = "done" =>
      /\ Len(p_chunks) >= 1
      /\ p_chunks[1].start = 0
      /\ p_chunks[Len(p_chunks)].end = p_total
      /\ \A i \in 1..Len(p_chunks) : p_chunks[i].start < p_chunks[i].end
      /\ \A i \in 1..(Len(p_chunks) - 1) :
           p_chunks[i + 1].start = p_chunks[i].end
      /\ \A f \in 0..(p_total - 1) :
           Cardinality({i \in 1..Len(p_chunks) :
                          p_chunks[i].start <= f /\ f < p_chunks[i].end}) = 1

C6_Witness ==
    /\ ppc = "done" /\ Len(p_chunks) >= 3
    /\ ChunkLen(p_chunks[Len(p_chunks)]) < ChunkLen(p_chunks[1])

Returned == rpc \in {"returned", "done"}
Writers(f) == {written[f][k] : k \in 1..Len(written[f])}
DoneChunks == {c \in ChunkIds : cstate[c] = "done"}
RECURSIVE SumOver(_, _)
SumOver(S, g) ==
    IF S = {} THEN 0
    ELSE LET c == CHOOSE x \in S : TRUE IN g[c] + SumOver(S \ {c}, g)

\* C8: under every interleaving of the workers no frame index is written by
\* two different workers, and when generate_frames returns a non-zero count
\* every index in [0, totalFrames) has been written exactly once.
C8_DisjointWrites ==
    /\ \A f \in FrameIds : Cardinality(Writers(f)) <= 1
    /\ (Returned /\ frames_result # 0) =>
          \A f \in FrameIds : Len(written[f]) = 1

C8_Witness ==
    /\ Returned /\ frames_result = total_frames
    /\ Len(chunks) >= 3
    /\ \E i \in 1..(Len(results) - 1) : results[i] < results[i + 1]

\* C9: the frame count generate_frames returns is the sum of the per-chunk
\* frame counts the workers returned, whatever the completion order.
C9_ReturnsSumOfChunkCounts ==
    Returned => frames_result = SumOver(DoneChunks, generated)

\* C10: if one worker's chunk is aborted by an error in a frame, the other
\* chunks still render all their frames and generate_frames returns a
\* partial result: the frames of the chunks that completed, fewer than
\* totalFrames.
C10_PartialResult ==
    (Returned /\ \E c \in ChunkIds : cause[c] = "frame") =>
       /\ \A c \in ChunkIds :
            cause[c] # "frame" =>
               /\ cstate[c] = "done"
               /\ \A f \in chunks[c].start..(chunks[c].end - 1) :
                    Len(written[f]) = 1
       /\ frames_result = SumOver(DoneChunks, generated)
       /\ frames_result < total_frames

\* C11: a worker that cannot load the shared background or the font
\* substitutes a default and still renders every frame of its chunk: a
\* resource load failure never aborts the chunk, and when no frame raised an
\* error the job returns all its frames.
C11_LoadFailureFallsBack ==
    /\ \A c \in ChunkIds : cause[c] # "background"
    /\ (Returned /\ chunks # <<>> /\ (~bg_readable \/ ~font_loadable)
           /\ \A c \in ChunkIds : cause[c] # "frame") =>
          /\ frames_result = total_frames
          /\ \A f \in FrameIds : Len(written[f]) = 1

(***************************************************************************)
(* Claims about the narration timeline and the duration reconciliation     *)
(* (checked under SpecAudio)                                               *)
(***************************************************************************)
RECURSIVE SumTo(_, _)
\* the sum of the durations of the first k segments
SumTo(ts, k) == IF k = 0 THEN 0 ELSE SumTo(ts, k - 1) + ts[k].duration

\* C12: the timeline built by text_to_speech starts at 0, each start_time is
\* the sum of the prior durations, each end_time is start_time + duration
\* and equals the next start_time, and the last end_time is the sum of all
\* durations.
C12_Timeline ==
    /\ \A i \in 1..Len(timings) :
         /\ timings[i].start_time = SumTo(timings, i - 1)
         /\ timings[i].end_time = timings[i].start_time + timings[i].duration
         /\ i < Len(timings) => timings[i].end_time = timings[i + 1].start_time
    /\ timings # <<>> =>
         /\ timings[1].start_time = 0
         /\ timings[Len(timings)].end_time = SumTo(timings, Len(timings))
    /\ audio_timings \in {<<>>, timings}

C12_Witness ==
    /\ Len(audio_timings) = MaxLines
    /\ audio_timings[1].duration # audio_timings[2].duration
    /\ audio_timings[MaxLines].start_time > 0

(***************************************************************************)
(* Claims about the segment lookup (checked under SpecLookup)              *)
(***************************************************************************)
LastEnd == l_timings[Len(l_timings)].end_time
ActiveSet == {i \in 1..Len(l_timings) : Active(l_timings[i], l_frame, l_fps)}
\* the frame's time is the end of segment i and the start of segment i + 1
OnBoundary(i) ==
    /\ i < Len(l_timings)
    /\ TimeAtLeast(l_frame, l_fps, l_timings[i].end_time)
    /\ TimeAtMost(l_frame, l_fps, l_timings[i].end_time)

\* C13: for a time position in [0, lastSegment.end_time] the lookup returns
\* a segment, the first in sequence order whose inclusive interval contains
\* it (the earlier one at a shared boundary); beyond lastSegment.end_time it
\* returns none and the frame is the background without text.
C13_LookupFirstMatch ==
    lpc = "done" =>
       IF TimeAtMost(l_frame, l_fps, LastEnd)
       THEN /\ l_segment \in ActiveSet
            /\ \A j \in ActiveSet : l_segment <= j
            /\ l_kind = "text"
       ELSE /\ l_segment = 0
            /\ l_kind = "background"

C13_Witness ==
    /\ lpc = "done"
    /\ Len(l_timings) >= 2
    /\ OnBoundary(1)
    /\ l_segment = 1

Concatenated == SumDurations(audio_timings)
AudioSucceeded == apc = "done" /\ audio_result = TRUE

\* C15: after a successful audio assembly the combined narration is no
\* longer than the ceiling max_duration.
C15_WithinCeiling ==
    AudioSucceeded => combined_len <= MaxDurationLen

\* C16: when the concatenated narration is not longer than the ceiling the
\* reconciler does nothing: no speed factor is computed, no speed filter is
\* run and the combined audio keeps its length.
C16_NoActionUnderCeiling ==
    (combined_len # -1 /\ Concatenated <= MaxDurationLen) =>
       /\ speed_plan = <<>>
       /\ speed_runs = 0
       /\ apc # "speedup"
       /\ combined_len = Concatenated

\* a narration exactly as long as the ceiling went through unadjusted
C16_Witness ==
    /\ AudioSucceeded
    /\ combined_len = MaxDurationLen
    /\ speed_runs = 0

\* C17: for actualDuration > ceiling > 0 the plan is the single application
\* ceiling / actualDuration when that is at least 0.5, otherwise n equal
\* applications with n the smallest integer such that 0.5^n is at most the
\* target; every application lies in [0.5, 100] and the applications
\* multiply to the target.
C17_SpeedPlan ==
    speed_plan # <<>> =>
       LET num == speed_plan.num
           den == speed_plan.den
           n == speed_plan.count
       IN  /\ num = MaxDurationLen /\ den = Concatenated /\ 0 < num /\ num < den
           /\ IF 2 * num >= den
              THEN n = 1
              ELSE /\ n >= 2
                   /\ den <= num * 2^n
                   /\ den > num * 2^(n - 1)
           \* each application is (num / den) ^ (1 / root)
           /\ num * 2^speed_plan.root >= den
           /\ num <= 100 * den
           \* count applications of the root-th root multiply to num / den
           /\ speed_plan.root = n

C17_Witness ==
    /\ apc = "export"
    /\ speed_runs = 1
    /\ speed_plan # <<>>
    /\ speed_plan.count = 3

(***************************************************************************)
(* Claims about the empty input (checked under SpecEmptyInput)             *)
(***************************************************************************)
\* the content stage stored an empty narration
EmptyNarration ==
    cpc # "idle" /\ "narration_lines" \in workspace /\ narration = 0
StagesRun == {stages_run[i] : i \in 1..Len(stages_run)}

\* C18: with an empty narration the audio stage reports failure and the job
\* fails before rendering: neither the visual nor the video stage is run;
\* and generate_frames on an empty timeline returns 0 without creating a
\* chunk.
C18_EmptyInputFails ==
    /\ EmptyNarration =>
          /\ (apc = "done" => audio_result = FALSE)
          /\ (cpc = "done" => pipeline_result = FALSE)
          /\ StagesRun \cap {"visual", "video", "upload"} = {}
    /\ (Returned /\ timeline_len = 0) =>
          /\ frames_result = 0
          /\ chunks = <<>>
          /\ \A f \in FrameIds : written[f] = <<>>
          /\ (rpc = "done" => exec_result = FALSE)

C18_Witness ==
    /\ EmptyNarration
    /\ cpc = "done"
    /\ stages_run = <<"content", "audio">>
    /\ audio_result = FALSE
    /\ pipeline_result = FALSE

(***************************************************************************)
(* Claims about termination (checked under SpecVideoLive)                  *)
(***************************************************************************)
\* C19: every create_video call eventually returns a success or a failure
\* result, also when an encoder invocation never exits.
C19_EventuallyReturns == <>(vpc = "done")

(***************************************************************************)
(* Claims about cancellation (checked under SpecAbort)                     *)
(***************************************************************************)
\* C20: when the job is aborted every running worker chunk stops within at
\* most one further frame and an encoder process running at that moment is
\* killed: after the abort no worker keeps writing frames and no encoder
\* process is left running.
C20_AbortReachesWork ==
    aborted # "no" =>
       /\ \A c \in ChunkIds : late[c] <= 1
       /\ encoder # "running"

(***************************************************************************)
(* Claims about the order of the stages (checked under SpecJob)            *)
(***************************************************************************)
\* an encoder process was started by create_video
EncoderInvoked == attempts # <<>>
Unfinished == {c \in ChunkIds : cstate[c] \in {"queued", "running"}}
Succeeded(name) ==
    \E i \in 1..Len(PipelineSteps) : PipelineSteps[i] = name /\ step > i

\* C21: an encoder is started only after rendering has finished and the
\* audio is final: whenever an encoder has been started, no chunk of the
\* worker pool is queued or running, generate_frames has returned,
\* combined_audio_file is in the workspace, and the audio stage and the
\* visual stage have both returned True
C21_EncoderAfterRenderAndAudio ==
    EncoderInvoked =>
        /\ Unfinished = {}
        /\ rpc = "done"
        /\ exec_result = TRUE
        /\ "combined_audio_file" \in workspace
        /\ Succeeded("audio")
        /\ Succeeded("visual")

\* an encoder was started after a pool of several chunks had rendered
C21_Witness ==
    /\ EncoderInvoked
    /\ Len(chunks) > 1
    /\ stages_run = <<"content", "audio", "visual", "video">>

(***************************************************************************)
(* Claims about the exported audio (checked under SpecAudio)               *)
(***************************************************************************)
\* the end of the timeline stored in workspace["audio_timings"]
TimelineEnd == audio_timings[Len(audio_timings)].end_time

\* C22: after the audio stage succeeded, the end_time of the last segment of
\* workspace["audio_timings"] equals the duration of the combined audio
\* file, also when the speed adjustment was applied.
C22_TimelineMatchesAudio ==
    AudioSucceeded => TimelineEnd = output_len

\* C23: mixing background music never changes the duration: for a track of
\* positive length the music overlaid is exactly as long as the voice and
\* so is the mixed audio, and when nothing is mixed (no track, or the mix
\* failed) the exported audio has the length of the voice.
C23_MixKeepsLength ==
    AudioSucceeded =>
        /\ output_len = combined_len
        /\ audio_mix = "mixed" => music_len = combined_len

\* a mix was exported
C23_Witness ==
    /\ AudioSucceeded
    /\ audio_mix = "mixed"
    /\ music_len > 0

(***************************************************************************)
(* Claims about the frame count and the progress (checked under SpecLookup)*)
(***************************************************************************)
\* the timeline of the segments of 2.0 s, 3.0 s and 1.5 s
ExampleTimeline == BuildTimeline(<<20, 30, 15>>, 1, 0)
Example == l_timings = ExampleTimeline /\ l_fps = 30

\* C24: for every non-empty timeline total_frames is the whole part of
\* end_time of the last segment times fps, plus 10: total_frames - 10 is the
\* greatest integer not above end_time * fps; for the segments of 2.0 s,
\* 3.0 s and 1.5 s at 30 frames per second it is 205.
C24_TotalFrames ==
    /\ (l_total - 10) * TicksPerSecond <= LastEnd * l_fps
    /\ (l_total - 10 + 1) * TicksPerSecond > LastEnd * l_fps
    /\ Example => l_total = 205

\* the frame count of the example timeline was computed and used
C24_Witness ==
    /\ lpc = "done"
    /\ Example
    /\ l_total = 205

C26_PositiveDurations ==
    \A i \in 1..Len(audio_timings) : audio_timings[i].duration > 0

\* C28: for every progress in [0, 1] the alpha of the text is an integer in
\* [0, 255]: 0 at progress 0 and at progress 1, the whole part of
\* progress * 5 * 255 below 0.2, 255 from 0.2 to 0.8, and the whole part of
\* (1 - progress) * 5 * 255 above 0.8.
C28_Alpha ==
    (lpc = "done" /\ l_kind = "text") =>
        LET num == l_progress[1]
            den == l_progress[2]
        IN  /\ l_alpha \in 0..255
            /\ num = 0 => l_alpha = 0
            /\ num = den => l_alpha = 0
            /\ (5 * num >= den /\ 5 * num <= 4 * den) => l_alpha = 255
            /\ 5 * num < den =>
                  /\ l_alpha * den <= num * 5 * 255
                  /\ (l_alpha + 1) * den > num * 5 * 255
            /\ 5 * num > 4 * den =>
                  /\ l_alpha * den <= (den - num) * 5 * 255
                  /\ (l_alpha + 1) * den > (den - num) * 5 * 255

\* a frame at the very end of its segment, where the text has faded out
C28_Witness ==
    /\ lpc = "done"
    /\ l_kind = "text"
    /\ l_progress[1] = l_progress[2]
    /\ l_alpha = 0

(***************************************************************************)
(* Claims about the concat manifest (checked under SpecManifest)           *)
(***************************************************************************)
RECURSIVE DigitsValue(_)
\* the number written by a sequence of digit characters
DigitsValue(cs) ==
    IF cs = <<>> THEN 0
    ELSE DigitsValue(SubSeq(cs, 1, Len(cs) - 1)) * 10
           + (cs[Len(cs)] - DigitZero)
\* the frame index in a file name
FrameIndex(name) ==
    DigitsValue(SubSeq(name, Len(FramePrefix) + 1,
                       Len(name) - Len(FrameSuffix)))

\* C27: the concat manifest has exactly one line per frame file and lists
\* the frames in ascending order of their index, also when indices have
\* more digits than the padding width.
C27_ManifestAscending ==
    mpc = "written" =>
        /\ Len(m_manifest) = Cardinality(m_dir)
        /\ {FrameIndex(m_manifest[k]) : k \in 1..Len(m_manifest)} = m_dir
        /\ \A k \in 1..(Len(m_manifest) - 1) :
             FrameIndex(m_manifest[k]) < FrameIndex(m_manifest[k + 1])

(***************************************************************************)
(* Claims about the word wrap (checked under SpecWrap)                     *)
(***************************************************************************)
\* C29: every line wrap_text returns is non-empty and narrower than the
\* budget max_width, also when a single word is wider than the budget.
C29_LinesFit ==
    wpc = "done" =>
        \A k \in 1..Len(w_lines) :
            /\ w_lines[k] # <<>>
            /\ TextWidth(w_lines[k]) < w_max

(***************************************************************************)
(* Claims about the coordinator (checked under SpecPipeline)               *)
(***************************************************************************)
AllTrue == \A i \in 1..Len(stage_results) : stage_results[i] = TRUE

\* C30: the coordinator calls the stages in the order content, audio,
\* visual, video, upload, each at most once; it returns True exactly when
\* every stage was called and returned True; and after the first stage that
\* returned False no later stage is called.
C30_StagesInOrder ==
    /\ Len(stages_run) <= Len(PipelineSteps)
    /\ stages_run = SubSeq(PipelineSteps, 1, Len(stages_run))
    /\ \A i \in 1..Len(stage_results) :
         stage_results[i] = FALSE => Len(stages_run) = i
    /\ cpc = "done" =>
         /\ pipeline_result = TRUE <=>
               (Len(stage_results) = Len(PipelineSteps) /\ AllTrue)
         /\ pipeline_result = FALSE <=> ~AllTrue

\* a job that ran every stage and returned True
C30_Witness ==
    /\ cpc = "done"
    /\ pipeline_result = TRUE
    /\ stages_run = PipelineSteps

====
